---- MODULE Spec2Model ----
(***************************************************************************)
(* Chunked-review orchestration of disconnekt/reviwer.                     *)
(*                                                                         *)
(* Three layers, each a state machine with its own program counter:        *)
(*   cpc  the backend client (ReviewChunk, GenerateUnitTests, lmstudioChat *)
(*        and retryWithBackoff),                                           *)
(*   opc  ReviewAndFixLoop,                                                *)
(*   mpc  main (resume block, health check, mode switch).                  *)
(* Texts are sequences of tokens: "\n" is the line separator, "F" a code   *)
(* fence (three backquotes), anything else is opaque text.                 *)
(***************************************************************************)
EXTENDS Integers, Sequences, FiniteSets, TLC

VARIABLES
    \* ---- backend client (LLMClient) and retryWithBackoff
    provider,     \* LLMClient.provider
    ckind,        \* request kind in progress: "review" | "test"
    cpc,          \* position of the client call
    ctxErr,       \* ctx.Err() of the context given to the call
    rbMax,        \* retryWithBackoff: maxRetries
    rbI,          \* retryWithBackoff: i
    rbErr,        \* retryWithBackoff: err
    backoff,      \* retryWithBackoff: backoff, in seconds
    rbRet,        \* retryWithBackoff: returned error
    lastErr,      \* lmstudioChat: lastErr
    result,       \* lmstudioChat: result
    cret,         \* value returned by the client call: [content, err]
    lastResp,     \* the backend's answer to the most recent request
    fnCalls,      \* number of invocations of the operation in this call
    waits,        \* number of backoff waits that ran to their end
    waitCancel,   \* the context became done during a backoff wait
    callsAtCancel,\* fnCalls at that moment
    \* ---- ReviewAndFixLoop: parameters
    opc,          \* position in ReviewAndFixLoop
    lang, chunks, writeTests, keepTests, maxRetries, failedChunksFile,
    \* ---- ReviewAndFixLoop: locals
    interrupted, i, retries, err, review, testGen, timeoutCount, failedChunks,
    writtenFiles, totalTests, testsPassed, testsFailed,
    cleanupK,     \* CleanupGeneratedTests: position in files
    loopRet,      \* error returned by ReviewAndFixLoop
    \* ---- the file system and the clock
    disk,         \* generated test files that exist
    ledger,       \* contents of the failed-chunks file, NoFile when absent
    clock,        \* time.Now().UnixNano()
    \* ---- what has happened (history)
    reviewLog,    \* indices of the chunks that entered Reviewing, in order
    removeTried,  \* files os.Remove was called on
    ledgerIO,     \* outcome of writing the ledger file in this run
    attemptLogs,  \* "Review error in chunk" lines of the chunk in progress
    writeErr,     \* the error ParseAndWriteTests returned for this chunk
    \* ---- main
    mpc,          \* position in main; "off" when no process runs
    exitCode,     \* exit status of the last process
    runs,         \* number of processes started so far
    mode, resumeFailed, fileFlag, apiKey,   \* flags and environment
    mlang,        \* main: lang
    mchunks,      \* main: chunks
    mainFailed,   \* main: the indices decoded from the ledger file
    langQueue,    \* review-project: the languages the range has yet to visit
    \* ---- the chunker
    kpc,          \* position of a chunker call made on its own
    body,         \* the text given to the chunker (a diff, a file's contents)
    size,         \* chunkSize
    diffChunks,   \* what ChunkDiff returned
    fileChunks,   \* what GetFileChunks returned
    projChunks    \* what GetProjectChunks returned

clientVars == <<provider, ckind, cpc, ctxErr, rbMax, rbI, rbErr, backoff, rbRet,
                lastErr, result, cret, lastResp, fnCalls, waits, waitCancel,
                callsAtCancel>>

loopParams == <<lang, chunks, writeTests, keepTests, maxRetries,
                failedChunksFile>>
loopLocals == <<interrupted, i, retries, err, review, testGen, timeoutCount,
                failedChunks, writtenFiles, totalTests, testsPassed, testsFailed,
                cleanupK, loopRet>>
fsVars == <<disk, ledger, clock>>
histVars == <<reviewLog, removeTried, ledgerIO, attemptLogs, writeErr>>
loopVars == <<opc, loopParams, loopLocals, fsVars, histVars>>

mainVars == <<mpc, exitCode, runs, mode, resumeFailed, fileFlag, apiKey, mlang,
              mchunks, mainFailed, langQueue>>

chunkerVars == <<kpc, body, size, diffChunks, fileChunks, projChunks>>

outerVars == <<loopVars, mainVars, chunkerVars>>

vars == <<clientVars, loopVars, mainVars, chunkerVars>>

-----------------------------------------------------------------------------
\* Bounds of the model.

\* Largest maxRetries given to retryWithBackoff on its own.
MaxM == 3

-----------------------------------------------------------------------------
\* Errors.  Each value stands for one error text.

NoErr == "nil"

\* context.DeadlineExceeded: "context deadline exceeded"
CtxDeadlineErr == "context deadline exceeded"
\* context.Canceled: "context canceled"
CtxCanceledErr == "context canceled"

\* The error http.Client.Do (or the openai client) returns when its context is
\* done: the context's error wrapped in the request's description.
HttpCtxErr(ce) ==
    IF ce = CtxDeadlineErr THEN "Post: context deadline exceeded"
                           ELSE "Post: context canceled"

\* strings.Contains(err.Error(), "context deadline exceeded")
ContainsDeadline(e) ==
    e \in {CtxDeadlineErr, HttpCtxErr(CtxDeadlineErr)}

-----------------------------------------------------------------------------
\* Backend answers and contents.

\* What the backend does with one request whose context is still live.
Responses == {"network", "status", "badjson", "zero", "content"}

\* Message contents the backend may put in its first choice: of a review, and
\* of a test generation (no text, or two fenced blocks with text between).
ReviewContents == { <<>>, <<"x">> }
TestContents == { <<>>, <<"F", "x", "F", "x", "F", "y", "F">> }

\* The text "No response from LLM".
Placeholder == <<"N">>

Ret(c, e) == [content |-> c, err |-> e]

\* The error of a failed request.
ResponseErr(r) ==
    CASE r = "network" -> "dial tcp: connection refused"
      [] r = "status"  -> "lmstudio status 500"
      [] r = "badjson" -> "invalid character"
      [] OTHER         -> NoErr

\* ReviewChunk, openai branch (lines 99-118); GenerateUnitTests, openai branch
\* (lines 185-204); lmstudioChatTest (lines 209-253): one request, a response
\* with no choices gives the placeholder text and no error.
SingleRequest(ce, r, c) ==
    IF ce # NoErr THEN Ret(<<>>, HttpCtxErr(ce))
    ELSE IF r = "zero" THEN Ret(Placeholder, NoErr)
    ELSE IF r = "content" THEN Ret(c, NoErr)
    ELSE Ret(<<>>, ResponseErr(r))

\* The closure lmstudioChat hands to retryWithBackoff (lines 126-177): one
\* request; a response with no choices is the error "No response from LLM".
LmstudioFnResult(ce, r, c) ==
    IF ce # NoErr THEN Ret(<<>>, HttpCtxErr(ce))
    ELSE IF r = "zero" THEN Ret(<<>>, "No response from LLM")
    ELSE IF r = "content" THEN Ret(c, NoErr)
    ELSE Ret(<<>>, ResponseErr(r))

\* Number of attempts lmstudioChat allows retryWithBackoff (line 126).
LmstudioRetries == 3

-----------------------------------------------------------------------------
\* The client call.

\* The state of a call that has just been made with a fresh context.
ClientStart(k) ==
    /\ ckind' = k
    /\ cpc' = "call"
    /\ ctxErr' = NoErr
    /\ rbMax' = 0 /\ rbI' = 0 /\ rbErr' = NoErr /\ backoff' = 1
    /\ rbRet' = NoErr /\ lastErr' = NoErr /\ result' = <<>>
    /\ cret' = Ret(<<>>, NoErr)
    /\ lastResp' = "none"
    /\ fnCalls' = 0 /\ waits' = 0
    /\ waitCancel' = FALSE /\ callsAtCancel' = 0

ClientIdle ==
    /\ ckind = "none" /\ cpc = "idle" /\ ctxErr = NoErr
    /\ rbMax = 0 /\ rbI = 0 /\ rbErr = NoErr /\ backoff = 1
    /\ rbRet = NoErr /\ lastErr = NoErr /\ result = <<>>
    /\ cret = Ret(<<>>, NoErr)
    /\ lastResp = "none"
    /\ fnCalls = 0 /\ waits = 0
    /\ waitCancel = FALSE /\ callsAtCancel = 0

\* The deadline of the call's context elapses (context.WithTimeout, lines 364
\* and 399), at any moment of the call.
CtxDeadline ==
    /\ cpc \in {"call", "rbloop", "attempt", "backoff"}
    /\ ctxErr = NoErr
    /\ ctxErr' = CtxDeadlineErr
    /\ waitCancel' = (waitCancel \/ cpc = "backoff")
    /\ callsAtCancel' = IF cpc = "backoff" THEN fnCalls ELSE callsAtCancel
    /\ UNCHANGED <<provider, ckind, cpc, rbMax, rbI, rbErr, backoff, rbRet,
                   lastErr, result, cret, lastResp, fnCalls, waits>>
    /\ UNCHANGED outerVars

\* The context is canceled by its owner, at any moment of the call.
CtxCancel ==
    /\ cpc \in {"rbloop", "attempt", "backoff"}
    /\ ctxErr = NoErr
    /\ ctxErr' = CtxCanceledErr
    /\ waitCancel' = (waitCancel \/ cpc = "backoff")
    /\ callsAtCancel' = IF cpc = "backoff" THEN fnCalls ELSE callsAtCancel
    /\ UNCHANGED <<provider, ckind, cpc, rbMax, rbI, rbErr, backoff, rbRet,
                   lastErr, result, cret, lastResp, fnCalls, waits>>
    /\ UNCHANGED outerVars

\* ReviewChunk (lines 98-121).
ReviewChunk ==
    /\ cpc = "call" /\ ckind = "review"
    /\ IF provider = "openai"
       THEN \E r \in Responses, c \in ReviewContents :
              /\ cret' = SingleRequest(ctxErr, r, c)
              /\ lastResp' = IF ctxErr # NoErr THEN "ctx" ELSE r
              /\ fnCalls' = fnCalls + 1
              /\ cpc' = "ret"
              /\ UNCHANGED <<rbMax, rbI, rbErr, backoff, lastErr, result>>
       ELSE \* lmstudioChat, lines 124-126
            /\ result' = <<>> /\ lastErr' = NoErr
            /\ rbMax' = LmstudioRetries
            /\ rbI' = 0 /\ rbErr' = NoErr /\ backoff' = 1
            /\ cpc' = "rbloop"
            /\ UNCHANGED <<cret, lastResp, fnCalls>>
    /\ UNCHANGED <<provider, ckind, ctxErr, rbRet, waits, waitCancel, callsAtCancel>>
    /\ UNCHANGED outerVars

\* GenerateUnitTests (lines 184-207) and lmstudioChatTest (lines 209-253).
GenerateUnitTests ==
    /\ cpc = "call" /\ ckind = "test"
    /\ \E r \in Responses, c \in TestContents :
         /\ cret' = SingleRequest(ctxErr, r, c)
         /\ lastResp' = IF ctxErr # NoErr THEN "ctx" ELSE r
    /\ fnCalls' = fnCalls + 1
    /\ cpc' = "ret"
    /\ UNCHANGED <<provider, ckind, ctxErr, rbMax, rbI, rbErr, backoff, rbRet,
                   lastErr, result, waits, waitCancel, callsAtCancel>>
    /\ UNCHANGED outerVars

\* retryWithBackoff, the loop condition (line 64) and the return after the
\* loop (line 76).
RbLoopHead ==
    /\ cpc = "rbloop"
    /\ IF rbI < rbMax
       THEN cpc' = "attempt" /\ UNCHANGED rbRet
       ELSE cpc' = "rbdone" /\ rbRet' = rbErr
    /\ UNCHANGED <<provider, ckind, ctxErr, rbMax, rbI, rbErr, backoff, lastErr,
                   result, cret, lastResp, fnCalls, waits, waitCancel, callsAtCancel>>
    /\ UNCHANGED outerVars

\* retryWithBackoff, err = fn() and the test of err (lines 65-68), with fn the
\* closure of lmstudioChat.
RbAttempt ==
    /\ cpc = "attempt"
    /\ \E r \in Responses, c \in ReviewContents :
         LET out == LmstudioFnResult(ctxErr, r, c) IN
           /\ lastResp' = IF ctxErr # NoErr THEN "ctx" ELSE r
           /\ rbErr' = out.err
           /\ IF out.err = NoErr
              THEN /\ result' = out.content
                   /\ rbRet' = NoErr
                   /\ cpc' = "rbdone"
                   /\ UNCHANGED lastErr
              ELSE /\ lastErr' = out.err
                   /\ cpc' = "backoff"
                   /\ UNCHANGED <<result, rbRet>>
    /\ fnCalls' = fnCalls + 1
    /\ UNCHANGED <<provider, ckind, ctxErr, rbMax, rbI, backoff, cret, waits,
                   waitCancel, callsAtCancel>>
    /\ UNCHANGED outerVars

\* The select of retryWithBackoff (lines 69-73): which case wakes it.  The
\* timer of time.After(backoff) is never ready when the select is entered, so
\* a context that is done wins; otherwise the first event to happen wins.
SelectIgnoresCtx(ce) == "timer"
SelectCase(ce) == IF ce # NoErr THEN "done" ELSE "timer"

\* case <-ctx.Done(): return ctx.Err() (lines 70-71).
RbCtxDone ==
    /\ cpc = "backoff"
    /\ SelectCase(ctxErr) = "done"
    /\ rbRet' = ctxErr
    /\ cpc' = "rbdone"
    /\ UNCHANGED <<provider, ckind, ctxErr, rbMax, rbI, rbErr, backoff, lastErr,
                   result, cret, lastResp, fnCalls, waits, waitCancel, callsAtCancel>>
    /\ UNCHANGED outerVars

\* case <-time.After(backoff): the wait ends, backoff *= 2, i++ (lines 72-74).
RbTimer ==
    /\ cpc = "backoff"
    /\ SelectCase(ctxErr) = "timer"
    /\ waits' = waits + 1
    /\ backoff' = backoff * 2
    /\ rbI' = rbI + 1
    /\ cpc' = "rbloop"
    /\ UNCHANGED <<provider, ckind, ctxErr, rbMax, rbErr, rbRet, lastErr,
                   result, cret, lastResp, fnCalls, waitCancel, callsAtCancel>>
    /\ UNCHANGED outerVars

\* lmstudioChat after retryWithBackoff has returned (lines 178-181).
LmstudioChatReturn ==
    /\ cpc = "rbdone"
    /\ cret' = IF rbRet # NoErr THEN Ret(<<>>, lastErr) ELSE Ret(result, NoErr)
    /\ cpc' = "ret"
    /\ UNCHANGED <<provider, ckind, ctxErr, rbMax, rbI, rbErr, backoff, rbRet,
                   lastErr, result, lastResp, fnCalls, waits, waitCancel,
                   callsAtCancel>>
    /\ UNCHANGED outerVars

-----------------------------------------------------------------------------
\* The test artifact manager.

\* The contents of a file that does not exist: a list no run writes.
NoFile == << [Index |-> -1, Error |-> "no such file"] >>

\* strings.Index(s[from:], fence) + from, as a 1-based position; 0 for -1.
RECURSIVE IndexFence(_, _)
IndexFence(s, from) ==
    IF from > Len(s) THEN 0
    ELSE IF s[from] = "F" THEN from
    ELSE IndexFence(s, from + 1)

\* The file name ParseAndWriteTests gives block blockNum of chunk chunkIdx at
\* time t (lines 272-279); "" for a language it does not write tests for.
FileNameNoBlock(lg, chunkIdx, blockNum, t) ==
    CASE lg = "go"  -> <<"llm_generated_test", chunkIdx, 0, t, ".go">>
      [] lg = "php" -> <<"LLMGeneratedTest", chunkIdx, 0, t, ".php">>
      [] OTHER      -> <<>>
FileName(lg, chunkIdx, blockNum, t) ==
    CASE lg = "go"  -> <<"llm_generated_test", chunkIdx, blockNum, t, ".go">>
      [] lg = "php" -> <<"LLMGeneratedTest", chunkIdx, blockNum, t, ".php">>
      [] OTHER      -> <<>>

\* ParseAndWriteTests (lines 255-292), from position start with blockNum
\* blocks written: the files it returns and its error.  failAt is the number
\* of the block whose os.WriteFile fails (-1: none fails); t is the clock.
RECURSIVE ParseAndWriteTests(_, _, _, _, _, _, _, _)
ParseAndWriteTests(tg, lg, chunkIdx, start, blockNum, files, failAt, t) ==
    LET fence1 == IndexFence(tg, start)
        codeStart == fence1 + 1
        codeEnd == IndexFence(tg, codeStart)
        atEnd == IF Len(files) = 0
                 THEN [files |-> files, err |-> "no code blocks found in LLM test output"]
                 ELSE [files |-> files, err |-> NoErr]
    IN  IF fence1 = 0 THEN atEnd
        ELSE IF codeEnd = 0 THEN atEnd
        ELSE IF FileName(lg, chunkIdx, blockNum, t) = <<>>
             THEN [files |-> files, err |-> "test writing not supported for language"]
        ELSE IF blockNum = failAt
             THEN [files |-> files, err |-> "write error"]
        ELSE ParseAndWriteTests(tg, lg, chunkIdx, codeEnd + 1, blockNum + 1,
                 Append(files, FileName(lg, chunkIdx, blockNum, t + blockNum)),
                 failAt, t)

Range(s) == { s[k] : k \in 1..Len(s) }

\* CleanupGeneratedTests (lines 294-298): the position after the file at k,
\* whether or not its os.Remove succeeded.
CleanupStopsOnError(k, ok, n) == IF ok THEN k + 1 ELSE n
CleanupAdvance(k, ok, n) == k + 1

-----------------------------------------------------------------------------
\* ReviewAndFixLoop.

Supported == {"go", "php"}

\* A read of the variable interrupted by the loop (line 355).  The listener
\* goroutine writes it (line 330) with no synchronisation, so a read that
\* follows the write may return the new value or the old one.
ReadInterrupted(flag) == IF flag THEN {TRUE, FALSE} ELSE {FALSE}

\* The index the loop goes on with after a chunk failed (continue, lines 386
\* and 418); n is len(chunks).
AbortAfterFailure(idx, n) == n
ContinueAfterFailure(idx, n) == idx + 1

\* The index of the range loop after a chunk reached the end of the body
\* (lines 354 and 441-442).
SkipChunk(idx) == idx + 2
NextChunk(idx) == idx + 1

\* Whether the summary step writes the ledger file (line 450).
LedgerWantedAnyPath(recs, path) == Len(recs) > 0
LedgerWanted(recs, path) == Len(recs) > 0 /\ path # ""

\* The contents of the ledger file after lines 451-462, given the outcome io
\* of os.Create and Encode: a failed Create leaves the file as it was, a
\* failed Encode leaves the truncated file.
LedgerAfter(old, recs, io) ==
    CASE io = "createErr" -> old
      [] io = "encodeErr" -> <<>>
      [] OTHER            -> recs

\* The end of one iteration of the range loop: retries, review, err and
\* testGen are declared in the loop body (lines 360-362, 397).
BodyLocalsGone ==
    /\ retries' = 0 /\ err' = NoErr /\ review' = <<>> /\ testGen' = <<>>

\* The state of ReviewAndFixLoop when it is called.
LoopCall(lg, cs, wt, kt, mr, path) ==
    /\ opc' = "start"
    /\ lang' = lg /\ chunks' = cs /\ writeTests' = wt /\ keepTests' = kt
    /\ maxRetries' = mr /\ failedChunksFile' = path
    /\ interrupted' = FALSE /\ i' = 0 /\ retries' = 0 /\ err' = NoErr
    /\ review' = <<>> /\ testGen' = <<>> /\ timeoutCount' = 0
    /\ failedChunks' = <<>> /\ writtenFiles' = <<>>
    /\ totalTests' = 0 /\ testsPassed' = 0 /\ testsFailed' = 0
    /\ cleanupK' = 0 /\ loopRet' = NoErr
    /\ reviewLog' = <<>> /\ removeTried' = {}
    /\ ledgerIO' = "none" /\ attemptLogs' = 0 /\ writeErr' = NoErr

LoopLocalsInit ==
    /\ interrupted = FALSE /\ i = 0 /\ retries = 0 /\ err = NoErr
    /\ review = <<>> /\ testGen = <<>> /\ timeoutCount = 0
    /\ failedChunks = <<>> /\ writtenFiles = <<>>
    /\ totalTests = 0 /\ testsPassed = 0 /\ testsFailed = 0
    /\ cleanupK = 0 /\ loopRet = NoErr
    /\ reviewLog = <<>> /\ removeTried = {}
    /\ ledgerIO = "none" /\ attemptLogs = 0 /\ writeErr = NoErr

\* The listener goroutine (lines 327-331): SIGINT arrives, the flag is set.
Interrupt ==
    /\ opc \notin {"idle", "start", "done"}
    /\ ~interrupted
    /\ interrupted' = TRUE
    /\ UNCHANGED <<clientVars, opc, loopParams, i, retries, err, review, testGen,
                   timeoutCount, failedChunks, writtenFiles, totalTests,
                   testsPassed, testsFailed, cleanupK, loopRet, fsVars, histVars>>
    /\ UNCHANGED <<mainVars, chunkerVars>>

\* Lines 317-353: the language switch and the locals.
LoopStart ==
    /\ opc = "start"
    /\ IF lang \in Supported
       THEN opc' = "head" /\ UNCHANGED loopRet
       ELSE opc' = "done" /\ loopRet' = "unsupported language"
    /\ UNCHANGED <<clientVars, lang, chunks, writeTests, keepTests, maxRetries,
                   failedChunksFile, interrupted, i, retries, err, review,
                   testGen, timeoutCount, failedChunks, writtenFiles, totalTests,
                   testsPassed, testsFailed, cleanupK, fsVars, histVars>>
    /\ UNCHANGED <<mainVars, chunkerVars>>

\* Lines 354-362: the range loop, the test of interrupted, the chunk enters
\* Reviewing.
LoopHead ==
    /\ opc = "head"
    /\ IF i >= Len(chunks)
       THEN /\ opc' = "summary"
            /\ UNCHANGED <<retries, err, review, reviewLog, attemptLogs>>
       ELSE \E seen \in ReadInterrupted(interrupted) :
              IF seen
              THEN /\ opc' = "summary"
                   /\ UNCHANGED <<retries, err, review, reviewLog, attemptLogs>>
              ELSE /\ opc' = "reviewLoop"
                   /\ retries' = 0 /\ err' = NoErr /\ review' = <<>>
                   /\ reviewLog' = Append(reviewLog, i)
                   /\ attemptLogs' = 0
    /\ UNCHANGED <<clientVars, loopParams, interrupted, i, testGen, timeoutCount,
                   failedChunks, writtenFiles, totalTests, testsPassed,
                   testsFailed, cleanupK, loopRet, fsVars, removeTried,
                   ledgerIO, writeErr>>
    /\ UNCHANGED <<mainVars, chunkerVars>>

\* Lines 363-365: the condition of the review loop and the call of ReviewChunk
\* with a fresh context.
ReviewLoopHead ==
    /\ opc = "reviewLoop"
    /\ IF retries < maxRetries
       THEN /\ opc' = "reviewCall"
            /\ ClientStart("review")
            /\ UNCHANGED provider
       ELSE /\ opc' = "reviewCheck"
            /\ UNCHANGED clientVars
    /\ UNCHANGED <<lang, chunks, writeTests, keepTests, maxRetries,
                   failedChunksFile, loopLocals, fsVars, histVars>>
    /\ UNCHANGED <<mainVars, chunkerVars>>

\* The primed form of ClientIdle: the call is over.
ClientClear ==
    /\ ckind' = "none" /\ cpc' = "idle" /\ ctxErr' = NoErr
    /\ rbMax' = 0 /\ rbI' = 0 /\ rbErr' = NoErr /\ backoff' = 1
    /\ rbRet' = NoErr /\ lastErr' = NoErr /\ result' = <<>>
    /\ cret' = Ret(<<>>, NoErr)
    /\ lastResp' = "none"
    /\ fnCalls' = 0 /\ waits' = 0
    /\ waitCancel' = FALSE /\ callsAtCancel' = 0
    /\ UNCHANGED provider

\* Lines 365-373: ReviewChunk has returned.
ReviewReturn ==
    /\ opc = "reviewCall" /\ cpc = "ret"
    /\ review' = cret.content
    /\ err' = cret.err
    /\ IF cret.err = NoErr
       THEN opc' = "reviewCheck" /\ UNCHANGED <<retries, attemptLogs>>
       ELSE /\ opc' = "reviewLoop"
            /\ retries' = retries + 1
            /\ attemptLogs' = attemptLogs + 1
    /\ ClientClear
    /\ UNCHANGED <<loopParams, interrupted, i, testGen, timeoutCount,
                   failedChunks, writtenFiles, totalTests, testsPassed,
                   testsFailed, cleanupK, loopRet, fsVars, reviewLog,
                   removeTried, ledgerIO, writeErr>>
    /\ UNCHANGED <<mainVars, chunkerVars>>

\* Lines 375-396: the outcome of the review loop.
ReviewCheck ==
    /\ opc = "reviewCheck"
    /\ IF err # NoErr /\ ContainsDeadline(err)
       THEN /\ timeoutCount' = timeoutCount + 1
            /\ failedChunks' = Append(failedChunks, [Index |-> i, Error |-> err])
            /\ i' = ContinueAfterFailure(i, Len(chunks))
            /\ opc' = "head"
            /\ BodyLocalsGone
       ELSE /\ timeoutCount' = IF err # NoErr THEN 0 ELSE timeoutCount
            /\ retries' = 0
            /\ review' = <<>>    \* read last at line 392
            /\ opc' = "testLoop"
            /\ UNCHANGED <<failedChunks, i, err, testGen>>
    /\ UNCHANGED <<clientVars, loopParams, interrupted,
                   writtenFiles, totalTests, testsPassed, testsFailed, cleanupK,
                   loopRet, fsVars, reviewLog, removeTried, ledgerIO, attemptLogs,
                   writeErr>>
    /\ UNCHANGED <<mainVars, chunkerVars>>

\* Lines 398-400: the condition of the test-generation loop and the call of
\* GenerateUnitTests with a fresh context.
TestLoopHead ==
    /\ opc = "testLoop"
    /\ IF retries < maxRetries
       THEN /\ opc' = "testCall"
            /\ ClientStart("test")
            /\ UNCHANGED provider
       ELSE /\ opc' = "testCheck"
            /\ UNCHANGED clientVars
    /\ UNCHANGED <<lang, chunks, writeTests, keepTests, maxRetries,
                   failedChunksFile, loopLocals, fsVars, histVars>>
    /\ UNCHANGED <<mainVars, chunkerVars>>

\* Lines 400-407: GenerateUnitTests has returned.
TestReturn ==
    /\ opc = "testCall" /\ cpc = "ret"
    /\ testGen' = cret.content
    /\ err' = cret.err
    /\ IF cret.err = NoErr
       THEN opc' = "testCheck" /\ UNCHANGED retries
       ELSE opc' = "testLoop" /\ retries' = retries + 1
    /\ ClientClear
    /\ UNCHANGED <<loopParams, interrupted, i, review, timeoutCount,
                   failedChunks, writtenFiles, totalTests, testsPassed,
                   testsFailed, cleanupK, loopRet, fsVars, histVars>>
    /\ UNCHANGED <<mainVars, chunkerVars>>

\* Lines 408-423: the outcome of the test-generation loop.
TestCheck ==
    /\ opc = "testCheck"
    /\ IF err # NoErr
       THEN /\ timeoutCount' = IF ContainsDeadline(err) THEN timeoutCount + 1 ELSE 0
            /\ i' = ContinueAfterFailure(i, Len(chunks))
            /\ opc' = "head"
            /\ BodyLocalsGone
       ELSE /\ IF writeTests
               THEN timeoutCount' = 0 /\ opc' = "write"
               ELSE opc' = "chunkDone" /\ UNCHANGED timeoutCount
            /\ UNCHANGED <<i, retries, err, review, testGen>>
    /\ UNCHANGED <<clientVars, loopParams, interrupted, failedChunks, writtenFiles, totalTests, testsPassed,
                   testsFailed, cleanupK, loopRet, fsVars, histVars>>
    /\ UNCHANGED <<mainVars, chunkerVars>>

\* Lines 424-430: ParseAndWriteTests and the recording of its files.
WriteTests ==
    /\ opc = "write"
    /\ \E failAt \in -1..1 :
         LET out == ParseAndWriteTests(testGen, lang, i, 1, 0, <<>>, failAt, clock) IN
           /\ disk' = disk \cup Range(out.files)
           /\ clock' = clock + Len(out.files)
           /\ writeErr' = out.err
           /\ IF out.err # NoErr
              THEN /\ opc' = "chunkDone"
                   /\ UNCHANGED <<writtenFiles, totalTests>>
              ELSE /\ writtenFiles' = writtenFiles \o out.files
                   /\ totalTests' = totalTests + Len(out.files)
                   /\ opc' = "run"
    /\ UNCHANGED <<clientVars, loopParams, interrupted, i, retries, err, review,
                   testGen, timeoutCount, failedChunks, testsPassed, testsFailed,
                   cleanupK, loopRet, ledger, reviewLog, removeTried, ledgerIO,
                   attemptLogs>>
    /\ UNCHANGED <<mainVars, chunkerVars>>

\* len(files) at lines 434 and 437: the number of files ParseAndWriteTests
\* returned for chunk idx, which are the entries of the list named after it.
OneTestPerRun(files, idx) == 1
FilesOfChunk(files, idx) ==
    Cardinality({ k \in 1..Len(files) : files[k][2] = idx })

\* Lines 431-438: RunTests (lines 300-315) and the counters; n is the number
\* of files written for this chunk.
RunTestsStep ==
    /\ opc = "run"
    /\ LET n == FilesOfChunk(writtenFiles, i) IN
       \E pass \in BOOLEAN :
         IF pass
         THEN testsPassed' = testsPassed + n /\ UNCHANGED testsFailed
         ELSE testsFailed' = testsFailed + n /\ UNCHANGED testsPassed
    /\ opc' = "chunkDone"
    /\ UNCHANGED <<clientVars, loopParams, interrupted, i, retries, err, review,
                   testGen, timeoutCount, failedChunks, writtenFiles, totalTests,
                   cleanupK, loopRet, fsVars, histVars>>
    /\ UNCHANGED <<mainVars, chunkerVars>>

\* Line 441: the chunk is done.
ChunkDone ==
    /\ opc = "chunkDone"
    /\ i' = NextChunk(i)
    /\ opc' = "head"
    /\ BodyLocalsGone
    /\ writeErr' = NoErr
    /\ UNCHANGED <<clientVars, loopParams, interrupted, timeoutCount,
                   failedChunks, writtenFiles, totalTests, testsPassed,
                   testsFailed, cleanupK, loopRet, fsVars, reviewLog,
                   removeTried, ledgerIO, attemptLogs>>
    /\ UNCHANGED <<mainVars, chunkerVars>>

\* Lines 445-449: the summary; whether the generated files are cleaned up.
Summary ==
    /\ opc = "summary"
    /\ IF writeTests /\ ~keepTests
       THEN opc' = "cleanup" /\ cleanupK' = 0
       ELSE opc' = "ledger" /\ UNCHANGED cleanupK
    /\ UNCHANGED <<clientVars, loopParams, interrupted, i, retries, err, review,
                   testGen, timeoutCount, failedChunks, writtenFiles, totalTests,
                   testsPassed, testsFailed, loopRet, fsVars, histVars>>
    /\ UNCHANGED <<mainVars, chunkerVars>>

\* CleanupGeneratedTests (lines 294-298), one file at a time: os.Remove may
\* fail, its error is dropped.
CleanupStep ==
    /\ opc = "cleanup"
    /\ IF cleanupK < Len(writtenFiles)
       THEN \E ok \in BOOLEAN :
              LET f == writtenFiles[cleanupK + 1] IN
                /\ disk' = IF ok THEN disk \ {f} ELSE disk
                /\ removeTried' = removeTried \cup {f}
                /\ cleanupK' = CleanupAdvance(cleanupK, ok, Len(writtenFiles))
                /\ UNCHANGED opc
       ELSE /\ opc' = "ledger"
            /\ UNCHANGED <<disk, removeTried, cleanupK>>
    /\ UNCHANGED <<clientVars, lang, chunks, writeTests, keepTests, maxRetries,
                   failedChunksFile, interrupted, i, retries, err, review,
                   testGen, timeoutCount, failedChunks, writtenFiles, totalTests,
                   testsPassed, testsFailed, loopRet, ledger, clock, reviewLog,
                   ledgerIO, attemptLogs, writeErr>>
    /\ UNCHANGED <<mainVars, chunkerVars>>

\* Lines 450-464: the ledger file, then return nil.
WriteLedger ==
    /\ opc = "ledger"
    /\ IF LedgerWanted(failedChunks, failedChunksFile)
       THEN \E io \in {"createErr", "encodeErr", "ok"} :
              /\ ledger' = LedgerAfter(ledger, failedChunks, io)
              /\ ledgerIO' = io
       ELSE UNCHANGED <<ledger, ledgerIO>>
    /\ opc' = "done"
    /\ loopRet' = NoErr
    /\ UNCHANGED <<clientVars, lang, chunks, writeTests, keepTests, maxRetries,
                   failedChunksFile, interrupted, i, retries, err, review,
                   testGen, timeoutCount, failedChunks, writtenFiles, totalTests,
                   testsPassed, testsFailed, cleanupK, disk, clock, reviewLog,
                   removeTried, attemptLogs, writeErr>>
    /\ UNCHANGED <<mainVars, chunkerVars>>

LoopNext ==
    \/ Interrupt
    \/ LoopStart
    \/ LoopHead
    \/ ReviewLoopHead
    \/ ReviewReturn
    \/ ReviewCheck
    \/ TestLoopHead
    \/ TestReturn
    \/ TestCheck
    \/ WriteTests
    \/ RunTestsStep
    \/ ChunkDone
    \/ Summary
    \/ CleanupStep
    \/ WriteLedger

\* The loop of a process that is not in ReviewAndFixLoop.
LoopIdle ==
    /\ opc = "idle"
    /\ lang = "" /\ chunks = <<>> /\ writeTests = FALSE /\ keepTests = FALSE
    /\ maxRetries = 0 /\ failedChunksFile = ""
    /\ LoopLocalsInit
    /\ disk = {} /\ ledger = NoFile /\ clock = 0

-----------------------------------------------------------------------------
\* The chunker.

\* strings.Split(text, "\n"): the lines of text, at least one.
RECURSIVE SplitFrom(_, _, _)
SplitFrom(text, k, cur) ==
    IF k > Len(text) THEN <<cur>>
    ELSE IF text[k] = "\n" THEN <<cur>> \o SplitFrom(text, k + 1, <<>>)
    ELSE SplitFrom(text, k + 1, Append(cur, text[k]))

Split(text) == SplitFrom(text, 1, <<>>)

\* strings.Join(lines, "\n")
RECURSIVE Join(_)
Join(lines) ==
    IF Len(lines) = 0 THEN <<>>
    ELSE IF Len(lines) = 1 THEN lines[1]
    ELSE lines[1] \o <<"\n">> \o Join(Tail(lines))

\* The loop shared by ChunkDiff, GetFileChunks and GetProjectChunks (lines
\* 78-85, 64-71, 42-49), from line number from (counted from 0).
RECURSIVE ChunkLines(_, _, _)
ChunkLines(lines, from, chunkSize) ==
    IF from >= Len(lines) THEN <<>>
    ELSE LET end == IF from + chunkSize > Len(lines) THEN Len(lines)
                    ELSE from + chunkSize
         IN <<Join(SubSeq(lines, from + 1, end))>> \o ChunkLines(lines, end, chunkSize)

\* ChunkDiff (lines 75-87).
ChunkDiff(diff, chunkSize) == ChunkLines(Split(diff), 0, chunkSize)

\* GetFileChunks (lines 57-73) of a file that can be read, given its contents.
GetFileChunks(data, chunkSize) == ChunkLines(Split(data), 0, chunkSize)

\* strings.HasSuffix(path, ext): a path is <<name, extension>>.
HasSuffix(path, ext) == path[2] = ext

\* GetProjectChunks (lines 29-55): files is the directory in the order
\* filepath.WalkDir visits it, every file readable.
RECURSIVE GetProjectChunks(_, _, _)
GetProjectChunks(files, chunkSize, ext) ==
    IF Len(files) = 0 THEN <<>>
    ELSE (IF HasSuffix(files[1].path, ext)
          THEN ChunkLines(Split(files[1].data), 0, chunkSize)
          ELSE <<>>)
         \o GetProjectChunks(Tail(files), chunkSize, ext)

\* strings.Contains(diff, ext): extensions are tokens of their own.
Contains(text, ext) == \E k \in 1..Len(text) : text[k] = ext

\* No chunker call is being made on its own.
ChunkerIdle ==
    /\ kpc = "off" /\ body = <<>> /\ size = 1
    /\ diffChunks = <<>> /\ fileChunks = <<>> /\ projChunks = <<>>

-----------------------------------------------------------------------------
\* The configuration and the project on disk.

\* cfg.ChunkSize
ChunkSize == 2

\* cfg.Languages[l].Extension
Extension(l) == IF l = "go" THEN ".go" ELSE ".php"

\* The project directory, in WalkDir order.
Project ==
    << [path |-> <<"a", ".go">>,  data |-> <<"g1", "\n", "g2", "\n", "g3", "\n">>],
       [path |-> <<"b", ".php">>, data |-> <<"p1", "\n">>] >>

\* What git diff prints: nothing, or a change to a.go.
Diffs == { <<>>, <<"a", ".go", "\n", "+g1", "\n", "+g2", "\n">> }

FileData(path) ==
    LET k == CHOOSE k \in 1..Len(Project) : Project[k].path = path IN Project[k].data

\* The chunk sequence a resume run recomputes (main.go lines 57-60).
AllChunks == GetProjectChunks(Project, ChunkSize, Extension("go"))

\* main.go lines 61-66: the chunks at the recorded indices that are in range.
RECURSIVE ResumeChunks(_, _)
ResumeChunks(idxs, all) ==
    IF Len(idxs) = 0 THEN <<>>
    ELSE (IF idxs[1] >= 0 /\ idxs[1] < Len(all) THEN <<all[idxs[1] + 1]>> ELSE <<>>)
         \o ResumeChunks(Tail(idxs), all)

\* HealthCheck (part_003 lines 37-58); probe is the outcome of the GET.
HealthCheckSkipped(pv, key, probe) == NoErr
HealthCheck(pv, key, probe) ==
    IF pv = "lmstudio"
    THEN IF probe = "ok" THEN NoErr ELSE "lmstudio health check failed"
    ELSE IF pv = "openai" /\ key = "" THEN "OPENAI_API_KEY is not set"
    ELSE NoErr

\* detectLangFromDiff (main.go lines 213-220): the languages the range over
\* the map may return; none means "".
DetectLangFromDiff(diff) ==
    LET hit == { l \in Supported : Contains(diff, Extension(l)) } IN
      IF hit = {} THEN {""} ELSE hit

\* detectLangFromFilename (main.go lines 222-229).
DetectLangFromFilename(path) ==
    LET hit == { l \in Supported : HasSuffix(path, Extension(l)) } IN
      IF hit = {} THEN {""} ELSE hit

\* main.go lines 141-153: langFiles[l], the files of one language in WalkDir
\* order.
LangFiles(l) == SelectSeq(Project, LAMBDA f : HasSuffix(f.path, Extension(l)))

\* main.go lines 167-175: langChunks, the chunks of GetFileChunks for each
\* file of the language, one after the other.
RECURSIVE ConcatFileChunks(_, _)
ConcatFileChunks(files, chunkSize) ==
    IF Len(files) = 0 THEN <<>>
    ELSE GetFileChunks(files[1].data, chunkSize)
         \o ConcatFileChunks(Tail(files), chunkSize)

LangChunks(l) == ConcatFileChunks(LangFiles(l), ChunkSize)

-----------------------------------------------------------------------------
\* main.

Modes == {"diff-uncommitted", "diff-branch", "review-project", "review-file"}

NoPath == <<"", "">>

MainGone ==
    /\ mode' = "" /\ resumeFailed' = FALSE /\ fileFlag' = NoPath /\ apiKey' = ""
    /\ mlang' = "" /\ mchunks' = <<>> /\ mainFailed' = <<>> /\ langQueue' = <<>>

MainIdle ==
    /\ mpc = "off" /\ exitCode = 0 /\ runs = 0
    /\ mode = "" /\ resumeFailed = FALSE /\ fileFlag = NoPath /\ apiKey = ""
    /\ mlang = "" /\ mchunks = <<>> /\ mainFailed = <<>> /\ langQueue = <<>>

\* The loop's variables when the process is gone; the files stay.
LoopGone ==
    /\ opc' = "idle"
    /\ lang' = "" /\ chunks' = <<>> /\ writeTests' = FALSE /\ keepTests' = FALSE
    /\ maxRetries' = 0 /\ failedChunksFile' = ""
    /\ interrupted' = FALSE /\ i' = 0 /\ retries' = 0 /\ err' = NoErr
    /\ review' = <<>> /\ testGen' = <<>> /\ timeoutCount' = 0
    /\ failedChunks' = <<>> /\ writtenFiles' = <<>>
    /\ totalTests' = 0 /\ testsPassed' = 0 /\ testsFailed' = 0
    /\ cleanupK' = 0 /\ loopRet' = NoErr
    /\ reviewLog' = <<>> /\ removeTried' = {}
    /\ ledgerIO' = "none" /\ attemptLogs' = 0 /\ writeErr' = NoErr

\* os.Exit(code), or the return of main.
Exit(code) ==
    /\ mpc' = "off"
    /\ exitCode' = code
    /\ MainGone
    /\ LoopGone
    /\ UNCHANGED <<chunkerVars, clientVars, fsVars, runs>>

\* Largest number of runs of the program over the same directory.
MaxRuns == 2

\* The program is started: flag.Parse (main.go lines 15-30).  The flags that
\* ReviewAndFixLoop receives are kept in its parameters.
ProcessStart ==
    /\ mpc = "off" /\ runs < MaxRuns
    /\ runs' = runs + 1
    /\ mpc' = "resume"
    /\ exitCode' = 0
    /\ mode' \in Modes \cup {"bogus"}
    /\ resumeFailed' \in BOOLEAN
    /\ fileFlag' \in IF mode' = "review-file"
                     THEN {NoPath} \cup { Project[k].path : k \in 1..Len(Project) }
                     ELSE {NoPath}
    /\ apiKey' \in {"", "sk"}
    /\ writeTests' = FALSE /\ keepTests' = FALSE
    /\ maxRetries' = 1
    /\ failedChunksFile' = "failed_chunks.json"
    /\ UNCHANGED <<chunkerVars, clientVars, opc, lang, chunks, loopLocals, fsVars, histVars,
                   mlang, mchunks, mainFailed, langQueue>>

\* main.go lines 38-67: the resume block.
MainResume ==
    /\ mpc = "resume"
    /\ IF ~resumeFailed
       THEN /\ mpc' = "health"
            /\ UNCHANGED <<chunkerVars, clientVars, loopVars, exitCode, runs, mode,
                           resumeFailed, fileFlag, apiKey, mlang, mchunks,
                           mainFailed, langQueue>>
       ELSE IF ledger = NoFile \/ ledger = <<>>
            THEN Exit(1)
            ELSE /\ mainFailed' = [k \in 1..Len(ledger) |-> ledger[k].Index]
                 /\ mlang' = "go"
                 /\ mchunks' = ResumeChunks(mainFailed', AllChunks)
                 /\ mpc' = "health"
                 /\ UNCHANGED <<chunkerVars, clientVars, loopVars, exitCode, runs, mode,
                                resumeFailed, fileFlag, apiKey, langQueue>>

\* main.go lines 84-90: the health check.
MainHealth ==
    /\ mpc = "health"
    /\ \E probe \in {"ok", "down"} :
         IF HealthCheck(provider, apiKey, probe) # NoErr
         THEN Exit(1)
         ELSE /\ mpc' = "mode"
              /\ UNCHANGED <<chunkerVars, clientVars, loopVars, exitCode, runs, mode,
                             resumeFailed, fileFlag, apiKey, mlang, mchunks,
                             mainFailed, langQueue>>

\* main.go lines 105-204: the mode switch, up to the call of ReviewAndFixLoop
\* or the loop over the languages.
ModeDiffUncommitted(diff) ==
    /\ mlang' = IF Contains(diff, Extension("go")) THEN "go"
                ELSE IF Contains(diff, Extension("php")) THEN "php"
                ELSE "go"
    /\ mchunks' = ChunkDiff(diff, ChunkSize)
    /\ mpc' = "call"
    /\ UNCHANGED <<chunkerVars, clientVars, loopVars, exitCode, runs, mode, resumeFailed,
                   fileFlag, apiKey, mainFailed, langQueue>>

ModeDiffBranch(diff) ==
    IF Len(diff) = 0 THEN Exit(0)
    ELSE \E l \in DetectLangFromDiff(diff) :
           IF l = "" THEN Exit(1)
           ELSE /\ mlang' = l
                /\ mchunks' = ChunkDiff(diff, ChunkSize)
                /\ mpc' = "call"
                /\ UNCHANGED <<chunkerVars, clientVars, loopVars, exitCode, runs, mode,
                               resumeFailed, fileFlag, apiKey, mainFailed, langQueue>>

ModeReviewProject ==
    IF \A l \in Supported : Len(LangFiles(l)) = 0
    THEN Exit(1)
    ELSE /\ langQueue' \in { <<"go", "php">>, <<"php", "go">> }
         /\ mpc' = "projLoop"
         /\ UNCHANGED <<chunkerVars, clientVars, loopVars, exitCode, runs, mode, resumeFailed,
                        fileFlag, apiKey, mlang, mchunks, mainFailed>>

ModeReviewFile ==
    IF fileFlag = NoPath THEN Exit(1)
    ELSE \E l \in DetectLangFromFilename(fileFlag) :
           IF l = "" THEN Exit(1)
           ELSE /\ mlang' = l
                /\ mchunks' = GetFileChunks(FileData(fileFlag), ChunkSize)
                /\ mpc' = "call"
                /\ UNCHANGED <<chunkerVars, clientVars, loopVars, exitCode, runs, mode,
                               resumeFailed, fileFlag, apiKey, mainFailed, langQueue>>

MainMode ==
    /\ mpc = "mode"
    /\ CASE mode = "diff-uncommitted" ->
              \E gitOK \in BOOLEAN, diff \in Diffs :
                 IF gitOK THEN ModeDiffUncommitted(diff) ELSE Exit(1)
         [] mode = "diff-branch" ->
              \E gitOK \in BOOLEAN, diff \in Diffs :
                 IF gitOK THEN ModeDiffBranch(diff) ELSE Exit(1)
         [] mode = "review-project" -> ModeReviewProject
         [] mode = "review-file" -> ModeReviewFile
         [] OTHER -> Exit(1)

\* main.go line 206: the call of ReviewAndFixLoop.
MainCallLoop ==
    /\ mpc = "call"
    /\ LoopCall(mlang, mchunks, writeTests, keepTests, maxRetries, failedChunksFile)
    /\ mpc' = "inLoop"
    /\ UNCHANGED <<chunkerVars, clientVars, fsVars, exitCode, runs, mode, resumeFailed,
                   fileFlag, apiKey, mlang, mchunks, mainFailed, langQueue>>

\* main.go lines 207-211: ReviewAndFixLoop has returned.
MainLoopReturn ==
    /\ mpc = "inLoop" /\ opc = "done"
    /\ IF loopRet # NoErr THEN Exit(1) ELSE Exit(0)

\* main.go lines 162-180 and 185: the next language of the range over
\* langFiles, or the return when there is none left.
ProjNext ==
    /\ mpc = "projLoop"
    /\ IF Len(langQueue) = 0
       THEN Exit(0)
       ELSE IF Len(LangFiles(Head(langQueue))) = 0
               \/ Len(LangChunks(Head(langQueue))) = 0
            THEN /\ langQueue' = Tail(langQueue)
                 /\ UNCHANGED <<chunkerVars, clientVars, loopVars, mpc, exitCode, runs, mode,
                                resumeFailed, fileFlag, apiKey, mlang, mchunks,
                                mainFailed>>
            ELSE /\ LoopCall(Head(langQueue), LangChunks(Head(langQueue)),
                             writeTests, keepTests, maxRetries, failedChunksFile)
                 /\ mpc' = "projCall"
                 /\ UNCHANGED <<chunkerVars, clientVars, fsVars, exitCode, runs, mode,
                                resumeFailed, fileFlag, apiKey, mlang, mchunks,
                                mainFailed, langQueue>>

\* main.go lines 181-184: ReviewAndFixLoop has returned, the range goes on.
ProjReturn ==
    /\ mpc = "projCall" /\ opc = "done"
    /\ langQueue' = Tail(langQueue)
    /\ mpc' = "projLoop"
    /\ UNCHANGED <<chunkerVars, clientVars, loopVars, exitCode, runs, mode, resumeFailed,
                   fileFlag, apiKey, mlang, mchunks, mainFailed>>

-----------------------------------------------------------------------------
\* ReviewAndFixLoop on its own: every parameter drawn from a small set, the
\* language among a supported one and an unsupported one (php differs from go
\* in FileName alone and is run under SpecMain).

\* Largest number of chunks in the list given to ReviewAndFixLoop.
MaxChunks == 2
\* Largest value of --max-retries.
MaxRetries == 1

ChunkLists == { [k \in 1..n |-> <<"c", k>>] : n \in 0..MaxChunks }

Init ==
    /\ provider \in {"openai", "lmstudio"}
    /\ ClientIdle
    /\ opc = "start"
    /\ lang \in {"go", "rust"}
    /\ chunks \in ChunkLists
    /\ writeTests \in BOOLEAN
    /\ keepTests \in BOOLEAN
    /\ maxRetries \in 0..MaxRetries
    /\ failedChunksFile \in {"", "failed_chunks.json"}
    /\ LoopLocalsInit
    /\ disk = {} /\ ledger = NoFile /\ clock = 0
    /\ MainIdle
    /\ ChunkerIdle

Next ==
    \/ LoopNext
    \/ ReviewChunk
    \/ GenerateUnitTests
    \/ RbLoopHead
    \/ RbAttempt
    \/ RbCtxDone
    \/ RbTimer
    \/ LmstudioChatReturn
    \/ CtxDeadline

Spec == Init /\ [][Next]_vars

-----------------------------------------------------------------------------
\* Properties of ReviewAndFixLoop, checked under Spec.

\* C1: a chunk whose review loop ends with an error of any kind gets exactly
\* one FailedChunk record with its index and the error text, a chunk whose
\* review succeeded gets none, and nothing else appends a record.
C1_ExhaustedReviewIsRecorded ==
    [][ /\ (opc = "reviewCheck" /\ opc' # "reviewCheck") =>
              failedChunks' = IF err # NoErr
                              THEN Append(failedChunks, [Index |-> i, Error |-> err])
                              ELSE failedChunks
        /\ (failedChunks' # failedChunks) => opc = "reviewCheck" ]_vars

\* C7: once the listener has set the flag, no further chunk enters Reviewing.
C7_NoReviewAfterInterrupt ==
    [][ interrupted => reviewLog' = reviewLog ]_vars

\* C8: when the loop has returned, os.Remove was tried on every recorded
\* artifact unless keep-tests was given, whatever removals failed, and the
\* loop returned no error; with keep-tests nothing was removed.
C8_CleanupCoversEveryArtifact ==
    (opc = "done" /\ lang \in Supported) =>
        /\ loopRet = NoErr
        /\ IF keepTests
           THEN removeTried = {} /\ Range(writtenFiles) \subseteq disk
           ELSE removeTried = Range(writtenFiles)

\* A removal failed and a later artifact was removed all the same.
C8_Witness ==
    /\ opc = "done" /\ ~keepTests
    /\ \E j, k \in 1..Len(writtenFiles) :
         j < k /\ writtenFiles[j] \in disk /\ writtenFiles[k] \notin disk

\* C9 as stated: the ledger file is written if and only if a record exists
\* and a path was given, and then holds all the records of the run.
C9_LedgerWrittenIffFailures ==
    (opc = "done" /\ lang \in Supported) =>
        /\ (ledger # NoFile) <=> (Len(failedChunks) > 0 /\ failedChunksFile # "")
        /\ (ledger # NoFile) => ledger = failedChunks

\* C9 amended: the write is attempted if and only if a record exists and a
\* path was given; when os.Create and Encode succeed the file holds all the
\* records of the run; when nothing is attempted or os.Create fails no file
\* is written.
C9_LedgerAttemptedIffFailures ==
    (opc = "done" /\ lang \in Supported) =>
        /\ (ledgerIO # "none") <=> (Len(failedChunks) > 0 /\ failedChunksFile # "")
        /\ ledgerIO = "ok" => ledger = failedChunks
        /\ ledgerIO \in {"none", "createErr"} => ledger = NoFile

\* The ledger is written on an early exit by cancellation.
C9_Witness ==
    /\ opc = "done" /\ interrupted /\ i < Len(chunks)
    /\ ledgerIO = "ok" /\ Len(ledger) = 1 /\ ledger[1].Index = 0

\* C10: with no interrupt, every chunk of the list entered Reviewing exactly
\* once, in order, whatever happened to the chunks before it, and the loop
\* returned no error.
C10_EveryChunkReviewedOnce ==
    (opc = "done" /\ ~interrupted /\ lang \in Supported) =>
        /\ loopRet = NoErr
        /\ reviewLog = [k \in 1..Len(chunks) |-> k - 1]

\* The first chunk failed its review and the second was reviewed all the same.
C10_Witness ==
    /\ opc = "done" /\ ~interrupted
    /\ Len(failedChunks) >= 1 /\ failedChunks[1].Index = 0
    /\ Len(reviewLog) >= 2

\* The positions of the loop body that follow the review loop of a chunk.
TestPhase == {"testLoop", "testCall", "testCheck", "write", "run", "chunkDone"}

\* C11: the index moves by one step at a time, only when no backend call is
\* in flight and the body of the chunk is over; every backend call is for the
\* chunk that entered Reviewing last; files are written and tests run only
\* between calls; once test generation of a chunk has begun no review request
\* for that chunk follows.
C11_OneChunkAtATimeInOrder ==
    [][ /\ (i' # i) => /\ i' = i + 1
                       /\ cpc = "idle" /\ cpc' = "idle"
                       /\ opc \in {"reviewCheck", "testCheck", "chunkDone"}
                       /\ opc' = "head"
        /\ (cpc = "idle" /\ cpc' = "call") =>
              /\ i' = i /\ i < Len(chunks)
              /\ reviewLog = [k \in 1..(i + 1) |-> k - 1]
              /\ ckind' = "review" => opc = "reviewLoop"
              /\ ckind' = "test" => opc = "testLoop"
        /\ (disk' # disk \/ testsPassed' # testsPassed \/ testsFailed' # testsFailed)
              => (cpc = "idle" /\ cpc' = "idle" /\ i' = i /\ opc \in {"write", "run", "cleanup"})
        /\ (opc \in TestPhase /\ i' = i) => opc' \in TestPhase ]_vars

\* Test generation for the second chunk is in flight after the first chunk
\* was reviewed, test-generated, written and run.
C11_Witness ==
    /\ opc = "testCall" /\ cpc = "call" /\ i = 1
    /\ reviewLog = <<0, 1>>
    /\ testsPassed + testsFailed > 0

\* C12: the consecutive-timeout counter is zero after a chunk whose review and
\* test generation succeeded, with or without write-tests, and after a chunk
\* that failed with an error other than a deadline.
C12_CounterResetOnSuccessOrOtherFailure ==
    [][ /\ (opc = "testCheck" /\ opc' # "testCheck" /\ err = NoErr)
              => timeoutCount' = 0
        /\ (opc \in {"reviewCheck", "testCheck"} /\ opc' # opc
              /\ err # NoErr /\ ~ContainsDeadline(err))
              => timeoutCount' = 0 ]_vars

\* C13: a chunk whose test-generation loop ends with an error gets a
\* FailedChunk record with its index and the error text.
C13_ExhaustedTestGenIsRecorded ==
    [][ (opc = "testCheck" /\ opc' # "testCheck" /\ err # NoErr)
          => failedChunks' = Append(failedChunks, [Index |-> i, Error |-> err]) ]_vars

\* C16: each review attempt of the orchestrator sends the backend one request;
\* a request that failed is logged as one failed attempt and retried while
\* attempts are left, a request that succeeded ends the review with nothing
\* logged, for both providers.  (So f failures before a success give f logged
\* attempts, and a backend that always fails gets max-retries requests.)
C16_OneRequestPerReviewAttempt ==
    [][ (opc = "reviewCall" /\ opc' # "reviewCall" /\ ctxErr = NoErr) =>
          /\ fnCalls = 1
          /\ lastResp \in {"network", "status", "badjson"} =>
                (attemptLogs' = attemptLogs + 1 /\ opc' = "reviewLoop")
          /\ lastResp = "content" =>
                (attemptLogs' = attemptLogs /\ opc' = "reviewCheck") ]_vars
\* The positions of the loop between two chunks and after the last.
BetweenChunks == {"head", "summary", "cleanup", "ledger", "done"}

\* C20: between chunks totalTests = testsPassed + testsFailed = the number of
\* recorded files; a successful write of n >= 1 files adds n to totalTests and
\* to the list, and the test run that follows adds that n to testsPassed or
\* to testsFailed and not to both; a failed write changes nothing; nothing
\* else changes the counters or the list, so a chunk with no write requested
\* leaves them alone.
C20_CountersMatchArtifacts ==
    [][ /\ opc \in BetweenChunks =>
              /\ totalTests = testsPassed + testsFailed
              /\ totalTests = Len(writtenFiles)
        /\ (opc = "write" /\ opc' # "write") =>
              LET n == Len(writtenFiles') - Len(writtenFiles) IN
                /\ totalTests' = totalTests + n
                /\ UNCHANGED <<testsPassed, testsFailed>>
                /\ IF writeErr' = NoErr
                   THEN n >= 1 /\ opc' = "run"
                   ELSE n = 0 /\ opc' = "chunkDone" /\ writtenFiles' = writtenFiles
        /\ (opc = "run" /\ opc' # "run") =>
              LET n == totalTests - (testsPassed + testsFailed) IN
                /\ n >= 1
                /\ UNCHANGED <<totalTests, writtenFiles>>
                /\ \/ testsPassed' = testsPassed + n /\ testsFailed' = testsFailed
                   \/ testsFailed' = testsFailed + n /\ testsPassed' = testsPassed
        /\ (opc \notin {"write", "run"} \/ ~writeTests) =>
              UNCHANGED <<totalTests, testsPassed, testsFailed, writtenFiles>> ]_vars

\* Both chunks had two files written; the tests passed after the first and
\* failed after the second.
C20_Witness ==
    /\ opc = "head" /\ i = 2
    /\ totalTests = 4 /\ testsPassed = 2 /\ testsFailed = 2
    /\ Len(writtenFiles) = 4

\* C21: every generated file on disk is in the list of recorded artifacts, a
\* write error on a later block included, so the cleanup reaches all of them.
C21_EveryWrittenFileIsRecorded ==
    disk \subseteq Range(writtenFiles)

\* C24: the review of a chunk is over, and its test generation is over, only
\* when a request has been sent and has returned, whatever max-retries is;
\* test generation follows a review that returned no error.
C24_NoSuccessWithoutBackendCall ==
    [][ /\ (opc' = "reviewCheck" /\ opc # "reviewCheck") =>
              (opc = "reviewCall" /\ cpc = "ret" /\ fnCalls >= 1)
        /\ (opc' = "testCheck" /\ opc # "testCheck") =>
              (opc = "testCall" /\ cpc = "ret" /\ fnCalls >= 1)
        /\ (opc = "reviewCheck" /\ opc' = "testLoop") => err = NoErr ]_vars

\* The steps of the run that end within a bounded time once they can be
\* taken: the statements of the loop, the sleeps, and the backend calls and
\* backoff waits, which hold a context made by context.WithTimeout (lines 364
\* and 399).  RunTests (lines 300-315) is not among them: cmd.Run() waits for
\* the test command with no context and no timeout, and returns only if the
\* command ends.  The signal may never come.
BoundedStep ==
    \/ LoopStart
    \/ LoopHead
    \/ ReviewLoopHead
    \/ ReviewReturn
    \/ ReviewCheck
    \/ TestLoopHead
    \/ TestReturn
    \/ TestCheck
    \/ WriteTests
    \/ ChunkDone
    \/ Summary
    \/ CleanupStep
    \/ WriteLedger
    \/ ReviewChunk
    \/ GenerateUnitTests
    \/ RbLoopHead
    \/ RbAttempt
    \/ RbCtxDone
    \/ RbTimer
    \/ LmstudioChatReturn

\* Every bounded step moves one of the positions.
pcVars == <<opc, cpc, cleanupK>>

SpecLive == Init /\ [][Next]_vars /\ WF_pcVars(BoundedStep)

\* C19: every run of ReviewAndFixLoop reaches its return.
C19_RunReachesSummary == <>(opc = "done")

-----------------------------------------------------------------------------
\* retryWithBackoff on its own: every maxRetries up to MaxM, a context that may
\* be canceled or run out at any moment.

InitRetry ==
    /\ provider = "lmstudio"
    /\ ckind = "review"
    /\ cpc = "rbloop"
    /\ ctxErr = NoErr
    /\ rbMax \in 0..MaxM
    /\ rbI = 0 /\ rbErr = NoErr /\ backoff = 1
    /\ rbRet = NoErr /\ lastErr = NoErr /\ result = <<>>
    /\ cret = Ret(<<>>, NoErr)
    /\ lastResp = "none"
    /\ fnCalls = 0 /\ waits = 0
    /\ waitCancel = FALSE /\ callsAtCancel = 0
    /\ LoopIdle
    /\ MainIdle
    /\ ChunkerIdle

NextRetry ==
    \/ RbLoopHead
    \/ RbAttempt
    \/ RbCtxDone
    \/ RbTimer
    \/ CtxDeadline
    \/ CtxCancel

SpecRetry == InitRetry /\ [][NextRetry]_vars

\* C2: with maxRetries = m >= 1, a context that is never done and an
\* operation that fails every time, the operation was invoked m times and the
\* backoff wait ran m - 1 times.
C2_WaitsOnlyBetweenAttempts ==
    (cpc = "rbdone" /\ rbMax >= 1 /\ ctxErr = NoErr /\ rbRet # NoErr) =>
        /\ fnCalls = rbMax
        /\ waits = rbMax - 1

\* C3: when the context becomes done during a backoff wait, the operation is
\* not invoked again and retryWithBackoff returns the context's error.
C3_CancelInWaitStopsRetrying ==
    waitCancel =>
        /\ fnCalls = callsAtCancel
        /\ cpc \in {"backoff", "rbdone"}
        /\ cpc = "rbdone" => (rbRet = ctxErr /\ rbRet # NoErr)

\* The deadline ran out in the wait after the first of several attempts.
C3_Witness ==
    /\ waitCancel /\ cpc = "rbdone"
    /\ rbRet = CtxDeadlineErr
    /\ fnCalls = 1 /\ rbMax >= 3


-----------------------------------------------------------------------------
\* One client call on its own: both providers, both request kinds.

InitClient ==
    /\ provider \in {"openai", "lmstudio"}
    /\ ckind \in {"review", "test"}
    /\ cpc = "call"
    /\ ctxErr = NoErr
    /\ rbMax = 0 /\ rbI = 0 /\ rbErr = NoErr /\ backoff = 1
    /\ rbRet = NoErr /\ lastErr = NoErr /\ result = <<>>
    /\ cret = Ret(<<>>, NoErr)
    /\ lastResp = "none"
    /\ fnCalls = 0 /\ waits = 0
    /\ waitCancel = FALSE /\ callsAtCancel = 0
    /\ LoopIdle
    /\ MainIdle
    /\ ChunkerIdle

NextClient ==
    \/ ReviewChunk
    \/ GenerateUnitTests
    \/ RbLoopHead
    \/ RbAttempt
    \/ RbCtxDone
    \/ RbTimer
    \/ LmstudioChatReturn
    \/ CtxDeadline

SpecClient == InitClient /\ [][NextClient]_vars

\* C4: a response with zero choices is returned as a success with empty
\* content and no error, and never leads to a retry.
C4_ZeroChoicesIsEmptySuccess ==
    lastResp = "zero" =>
        /\ cpc # "backoff"
        /\ cpc = "ret" => cret = Ret(<<>>, NoErr)

\* C23: a lmstudio review call that the deadline cut short, inside a request
\* or during a backoff wait, returns an error that contains "context deadline
\* exceeded".
C23_CutShortReviewReturnsDeadline ==
    (cpc = "ret" /\ provider = "lmstudio" /\ ckind = "review"
       /\ ctxErr = CtxDeadlineErr /\ (waitCancel \/ lastResp = "ctx"))
      => ContainsDeadline(cret.err)

-----------------------------------------------------------------------------
\* The whole program: up to MaxRuns runs over the same directory.

InitMain ==
    /\ provider \in {"openai", "lmstudio"}
    /\ ClientIdle
    /\ LoopIdle
    /\ MainIdle
    /\ ChunkerIdle

NextMain ==
    \/ ProcessStart
    \/ MainResume
    \/ MainHealth
    \/ MainMode
    \/ MainCallLoop
    \/ MainLoopReturn
    \/ ProjNext
    \/ ProjReturn
    \/ Interrupt
    \/ LoopStart
    \/ LoopHead
    \/ ReviewLoopHead
    \/ ReviewReturn
    \/ ReviewCheck
    \/ TestLoopHead
    \/ TestReturn
    \/ TestCheck
    \/ ChunkDone
    \/ Summary
    \/ WriteLedger
    \/ ReviewChunk
    \/ GenerateUnitTests
    \/ RbLoopHead
    \/ RbAttempt
    \/ RbCtxDone
    \/ RbTimer
    \/ LmstudioChatReturn
    \/ CtxDeadline

SpecMain == InitMain /\ [][NextMain]_vars

\* C5: in a resume run the list handed to ReviewAndFixLoop is the chunks of
\* the full sequence at the indices the ledger file records, whatever the mode.
C5_ResumeReviewsLedgerChunks ==
    (resumeFailed /\ opc # "idle") => chunks = ResumeChunks(mainFailed, AllChunks)

\* C6: the index of every FailedChunk record is, in the chunk sequence a
\* resume run recomputes, the index of the chunk that failed.
C6_RecordIndexFindsChunk ==
    \A k \in 1..Len(failedChunks) :
        LET idx == failedChunks[k].Index IN
          /\ idx < Len(AllChunks)
          /\ AllChunks[idx + 1] = chunks[idx + 1]

\* The positions of main that follow a health check that succeeded.
PastHealth == {"mode", "call", "inLoop", "projLoop", "projCall"}

\* C18: main goes past the health check only when HealthCheck returned no
\* error, which for openai is exactly when the key is set; when it returns an
\* error the process exits with a status other than 0; ReviewAndFixLoop runs,
\* and requests are sent, only after that point, resume runs included.
C18_NoRequestBeforeHealthCheck ==
    [][ /\ \A key \in {"", "sk"}, probe \in {"ok", "down"} :
              (HealthCheck("openai", key, probe) = NoErr) <=> (key # "")
        /\ (mpc' \in PastHealth /\ mpc \notin PastHealth) =>
              /\ mpc = "health" /\ mpc' = "mode"
              /\ \E probe \in {"ok", "down"} :
                   HealthCheck(provider, apiKey, probe) = NoErr
              /\ provider = "openai" => apiKey # ""
        /\ (mpc = "health" /\ provider = "openai" /\ apiKey = "") =>
              (mpc' = "off" /\ exitCode' # 0 /\ opc' = "idle" /\ cpc' = "idle")
        /\ (mpc = "health" /\ mpc' = "off") => exitCode' # 0
        /\ (opc' \notin {"idle", "done"} \/ cpc' # "idle") =>
              mpc' \in {"inLoop", "projCall"}
        /\ (mpc' \in PastHealth /\ provider = "openai") => apiKey' # "" ]_vars

\* A request of a resume run is in flight: the key is set.
C18_Witness ==
    /\ cpc = "call" /\ resumeFailed /\ mpc = "inLoop"
    /\ provider = "openai" /\ apiKey # ""

\* C22: in review-project mode, when a loop whose flag was set has returned,
\* the next invocation of ReviewAndFixLoop starts with the flag set.
C22_InterruptReachesLaterLanguages ==
    [][ (mpc = "projLoop" /\ interrupted /\ opc' = "start") => interrupted' ]_vars

\* C25: when a process that wrote the ledger without an I/O error, or had no
\* reason to write it, ends, the file holds the records of that process and
\* no others; in review-project mode a later invocation keeps the records an
\* earlier invocation of the same process wrote.
C25_LedgerHoldsThisProcessFailures ==
    [][ /\ (mpc = "inLoop" /\ opc = "done" /\ mpc' = "off"
              /\ ledgerIO \in {"none", "ok"}) =>
              ledger = (IF failedChunks = <<>> THEN NoFile ELSE failedChunks)
        /\ (mpc = "projCall" /\ opc = "ledger" /\ runs = 1
              /\ ledger # NoFile /\ ledgerIO' = "ok") =>
              \A k \in 1..Len(ledger) : \E j \in 1..Len(ledger') :
                 ledger'[j] = ledger[k] ]_vars

-----------------------------------------------------------------------------
\* The chunker on its own: every text of up to MaxBody tokens, each a newline
\* or a piece of a line, every chunk size from 1 to MaxSize.

\* Largest number of tokens of a text given to the chunker.
MaxBody == 5
\* Largest chunk size.
MaxSize == 3

Bodies == UNION { [1..n -> {"a", "\n"}] : n \in 0..MaxBody }

InitChunker ==
    /\ provider = "openai"
    /\ ClientIdle
    /\ LoopIdle
    /\ MainIdle
    /\ kpc = "in"
    /\ body \in Bodies
    /\ size \in 1..MaxSize
    /\ diffChunks = <<>> /\ fileChunks = <<>> /\ projChunks = <<>>

\* ChunkDiff(body, size) (part_002 lines 75-87).
ChunkDiffStep ==
    /\ kpc = "in"
    /\ diffChunks' = ChunkDiff(body, size)
    /\ kpc' = "file"
    /\ UNCHANGED <<body, size, fileChunks, projChunks>>
    /\ UNCHANGED <<clientVars, loopVars, mainVars>>

\* GetFileChunks of a file whose contents are body (part_002 lines 57-73).
GetFileChunksStep ==
    /\ kpc = "file"
    /\ fileChunks' = GetFileChunks(body, size)
    /\ kpc' = "proj"
    /\ UNCHANGED <<body, size, diffChunks, projChunks>>
    /\ UNCHANGED <<clientVars, loopVars, mainVars>>

\* GetProjectChunks of a directory whose one file holds body (part_002 lines
\* 29-55).
GetProjectChunksStep ==
    /\ kpc = "proj"
    /\ projChunks' = GetProjectChunks(<<[path |-> <<"f", ".go">>, data |-> body]>>,
                                      size, ".go")
    /\ kpc' = "out"
    /\ UNCHANGED <<body, size, diffChunks, fileChunks>>
    /\ UNCHANGED <<clientVars, loopVars, mainVars>>

NextChunker ==
    \/ ChunkDiffStep
    \/ GetFileChunksStep
    \/ GetProjectChunksStep

SpecChunker == InitChunker /\ [][NextChunker]_vars

\* C14: the chunks of ChunkDiff and of GetFileChunks, concatenated in order,
\* are the text; there are ceil(lines / size) of them, lines being the number
\* of lines of the text; the last chunk has between 1 and size lines.
C14_ChunksRoundTrip ==
    LET LineCount(t) == Cardinality({ j \in 1..Len(t) : t[j] = "\n" })
                        + (IF Len(t) > 0 /\ t[Len(t)] # "\n" THEN 1 ELSE 0)
        RECURSIVE Concat(_)
        Concat(cs) == IF Len(cs) = 0 THEN <<>> ELSE Head(cs) \o Concat(Tail(cs))
        Law(cs) == /\ Concat(cs) = body
                   /\ Len(cs) = (LineCount(body) + size - 1) \div size
                   /\ Len(cs) > 0 => LineCount(cs[Len(cs)]) \in 1..size
    IN  kpc = "out" => (Law(diffChunks) /\ Law(fileChunks))

\* C15: an empty text gives no chunk, a text that is not empty and has fewer
\* lines than the chunk size gives one chunk, from ChunkDiff, GetFileChunks
\* and GetProjectChunks alike.
C15_EmptyBodyNoChunk ==
    LET LineCount(t) == Cardinality({ j \in 1..Len(t) : t[j] = "\n" })
                        + (IF Len(t) > 0 /\ t[Len(t)] # "\n" THEN 1 ELSE 0)
        Edge(cs) == /\ body = <<>> => cs = <<>>
                    /\ (body # <<>> /\ LineCount(body) < size) => Len(cs) = 1
    IN  kpc = "out" => (Edge(diffChunks) /\ Edge(fileChunks) /\ Edge(projChunks))

-----------------------------------------------------------------------------
\* The test artifact manager on its own: the orchestrator is about to hand
\* the output of a test generation to ParseAndWriteTests, for every output of
\* up to MaxOutput tokens, each a fence or a piece of text.

\* Largest number of tokens of a model output.
MaxOutput == 5

Outputs == UNION { [1..n -> {"F", "x"}] : n \in 0..MaxOutput }

InitParse ==
    /\ provider = "openai"
    /\ ClientIdle
    /\ MainIdle
    /\ ChunkerIdle
    /\ opc = "write"
    /\ lang \in Supported
    /\ i \in 0..1
    /\ chunks = [k \in 1..(i + 1) |-> <<"c", k>>]
    /\ writeTests = TRUE /\ keepTests \in BOOLEAN
    /\ maxRetries = 1 /\ failedChunksFile = ""
    /\ testGen \in Outputs
    /\ interrupted = FALSE /\ retries = 0 /\ err = NoErr
    /\ review = <<>> /\ timeoutCount = 0
    /\ failedChunks = <<>> /\ writtenFiles = <<>>
    /\ totalTests = 0 /\ testsPassed = 0 /\ testsFailed = 0
    /\ cleanupK = 0 /\ loopRet = NoErr
    /\ reviewLog = [k \in 1..(i + 1) |-> k - 1] /\ removeTried = {}
    /\ ledgerIO = "none" /\ attemptLogs = 0 /\ writeErr = NoErr
    /\ disk = {} /\ ledger = NoFile /\ clock = 0

NextParse ==
    \/ WriteTests
    \/ RunTestsStep
    \/ ChunkDone
    \/ LoopHead
    \/ Summary
    \/ CleanupStep
    \/ WriteLedger

SpecParse == InitParse /\ [][NextParse]_vars

\* C17 as stated: output with no complete fenced block gives the error "no
\* code blocks found" and no file; output with n complete blocks gives n
\* files, one per block in order, named with the chunk index and the block
\* counters 0..n-1.
C17_OneFilePerBlock ==
    [][ (opc = "write" /\ opc' # "write") =>
          LET n == Cardinality({ k \in 1..Len(testGen) : testGen[k] = "F" }) \div 2
              base == Len(writtenFiles)
          IN  IF n = 0
              THEN /\ writeErr' = "no code blocks found in LLM test output"
                   /\ disk' = disk /\ writtenFiles' = writtenFiles
              ELSE /\ writeErr' = NoErr
                   /\ Cardinality(disk' \ disk) = n
                   /\ Len(writtenFiles') = base + n
                   /\ \A b \in 1..n :
                        /\ writtenFiles'[base + b] \in disk' \ disk
                        /\ writtenFiles'[base + b][2] = i
                        /\ writtenFiles'[base + b][3] = b - 1 ]_vars

\* C17 amended: as stated when every os.WriteFile succeeds; when the write of
\* a block fails, the write error is returned and the files created are those
\* of the blocks before it, fewer than n.
C17_OneFilePerBlockUnlessWriteFails ==
    [][ (opc = "write" /\ opc' # "write") =>
          LET n == Cardinality({ k \in 1..Len(testGen) : testGen[k] = "F" }) \div 2
              base == Len(writtenFiles)
          IN  IF n = 0
              THEN /\ writeErr' = "no code blocks found in LLM test output"
                   /\ disk' = disk /\ writtenFiles' = writtenFiles
              ELSE \/ /\ writeErr' = NoErr
                      /\ Cardinality(disk' \ disk) = n
                      /\ Len(writtenFiles') = base + n
                      /\ \A b \in 1..n :
                           /\ writtenFiles'[base + b] \in disk' \ disk
                           /\ writtenFiles'[base + b][2] = i
                           /\ writtenFiles'[base + b][3] = b - 1
                   \/ /\ writeErr' = "write error"
                      /\ Cardinality(disk' \ disk) < n
                      /\ \A f \in disk' \ disk : f[2] = i /\ f[3] < n - 1 ]_vars

\* Two blocks of the second chunk were written to two files.
C17_Witness ==
    /\ opc = "run" /\ i = 1 /\ writeErr = NoErr
    /\ Len(writtenFiles) = 2
    /\ writtenFiles[1][3] = 0 /\ writtenFiles[2][3] = 1
    /\ Range(writtenFiles) \subseteq disk

====
